---- MODULE Spec2Model ----
(***************************************************************************)
(* Model of the resume parser service: the two-tier cache of               *)
(* resume_parser.py (in-process dict + optional Redis), the extraction and *)
(* transform stages, parse_resume, and the auth gate of app.py.            *)
(***************************************************************************)
EXTENDS Integers, Sequences, FiniteSets, TLC

VARIABLES
    redis_client,   \* TRUE iff the startup probe left a Redis handle (else None)
    _cache,         \* the in-process dict, in insertion order: <<[k, v], ...>>
    redis,          \* the remote store: key -> pickled bytes (DOMAIN = stored keys)
    last,           \* the most recent direct call and what it observed
    requests,       \* the POST /parse-resume requests in flight
    reader          \* the easyocr.Reader objects built by this process, and
                    \* whether reader.readtext has been called in it

vars == <<redis_client, _cache, redis, last, requests, reader>>

-----------------------------------------------------------------------------
(* Python values.  Every value is a record of the same shape so that any   *)
(* two can be compared.                                                    *)

PyNone == [type |-> "NoneType", val |-> "None"]
PyStr(s) == [type |-> "str", val |-> s]
PyDict(d) == [type |-> "dict", val |-> d]

\* The in-process tier's capacity.  The program sets 1000; the model keeps the
\* smallest size for which len // 4 removes more than one entry.
_max_cache_size == 8

-----------------------------------------------------------------------------
(* dict operations on the insertion-ordered in-process tier                *)

DictHas(d, key) == \E i \in 1..Len(d) : d[i].k = key

DictIndex(d, key) == CHOOSE i \in 1..Len(d) : d[i].k = key

\* dict.get(key): the value, or None
DictGet(d, key) == IF DictHas(d, key) THEN d[DictIndex(d, key)].v ELSE PyNone

\* DictAssign moving an existing key to the young end, as if the key were
\* deleted and inserted again
DictAssign_MoveToEnd(d, key, value) ==
    Append(SelectSeq(d, LAMBDA e : e.k # key), [k |-> key, v |-> value])

\* d[key] = value: an existing key keeps its position, a new one goes last
DictAssign(d, key, value) ==
    IF DictHas(d, key)
    THEN [d EXCEPT ![DictIndex(d, key)] = [k |-> key, v |-> value]]
    ELSE Append(d, [k |-> key, v |-> value])

\* DictDropOldest taking the entries from the young end of the dict
DictDropNewest(d, n) ==
    IF n >= Len(d) THEN <<>> ELSE SubSeq(d, 1, Len(d) - n)

\* list(d.keys())[:n] followed by del d[k] for each
DictDropOldest(d, n) ==
    IF n >= Len(d) THEN <<>> ELSE SubSeq(d, n + 1, Len(d))

DictKeys(d) == {d[i].k : i \in 1..Len(d)}

-----------------------------------------------------------------------------
(* pickle and the Redis store                                              *)

pickle_dumps(value) == [bytes |-> "pickle", obj |-> value]
pickle_loads(b) == b.obj

RemoteOutcomes == {"ok", "error"}

\* A store is the pair of tiers a call reads and writes, with the log of the
\* (key, value) pairs the call handed to _set_cache.
Store(mem, remote, sets) == [mem |-> mem, remote |-> remote, sets |-> sets]

\* _get_from_cache with the except branch answering None instead of falling
\* through to the dict
_get_from_cache_NoFallThrough(st, key, ro) ==
    IF redis_client /\ ro = "ok" /\ key \in DOMAIN st.remote
    THEN pickle_loads(st.remote[key])
    ELSE IF redis_client /\ ro # "ok"
    THEN PyNone
    ELSE DictGet(st.mem, key)

\* _get_from_cache(key); ro is how the remote read goes for this call
_get_from_cache(st, key, ro) ==
    IF redis_client /\ ro = "ok" /\ key \in DOMAIN st.remote
    THEN pickle_loads(st.remote[key])
    ELSE DictGet(st.mem, key)

\* MemAfterSet with the capacity test written > instead of >=
MemAfterSet_StrictTest(mem, key, value) ==
    LET kept == IF Len(mem) > _max_cache_size
                THEN DictDropOldest(mem, _max_cache_size \div 4)
                ELSE mem
    IN  DictAssign(kept, key, value)

\* the in-process half of _set_cache
MemAfterSet(mem, key, value) ==
    LET kept == IF Len(mem) >= _max_cache_size
                THEN DictDropOldest(mem, _max_cache_size \div 4)
                ELSE mem
    IN  DictAssign(kept, key, value)

\* RemoteAfterSet with setex given the time-to-live where the value belongs
RemoteAfterSet_TtlAsValue(remote, key, value, wo) ==
    IF redis_client /\ wo = "ok"
    THEN (key :> pickle_dumps(PyStr("604800"))) @@ remote
    ELSE remote

\* RemoteAfterSet without the test of redis_client
RemoteAfterSet_AnyClient(remote, key, value, wo) ==
    IF wo = "ok"
    THEN (key :> pickle_dumps(value)) @@ remote
    ELSE remote

\* the remote half of _set_cache; wo is how the remote write goes
RemoteAfterSet(remote, key, value, wo) ==
    IF redis_client /\ wo = "ok"
    THEN (key :> pickle_dumps(value)) @@ remote
    ELSE remote

\* _set_cache(key, value)
_set_cache(st, key, value, wo) ==
    Store(MemAfterSet(st.mem, key, value),
          RemoteAfterSet(st.remote, key, value, wo),
          st.sets \cup {<<key, value>>})

-----------------------------------------------------------------------------
(* fingerprints and cache keys                                             *)

\* hashlib.md5(x).hexdigest(): one digest per input, different inputs differ
md5_hexdigest(x) == "md5(" \o x \o ")"

_get_file_hash(content) == md5_hexdigest(content)

\* text is a Python str; its UTF-8 bytes are hashed
_get_text_hash(text) == md5_hexdigest(text.val)

CacheKey(namespace, fingerprint) == namespace \o ":" \o fingerprint

-----------------------------------------------------------------------------
(* The external collaborators: the document libraries, the OCR reader and  *)
(* the chat-completion service.  Each library either returns text or       *)
(* raises on bytes it cannot read.                                         *)

\* the uploads the requests carry
Contents == {"textpdf", "textdocx", "scanpdf", "photo"}

Filenames == {"cv.pdf", "CV.PDF", "cv.docx", "cv.jpeg", "cv.txt"}

Returned(text) == [ok |-> TRUE, text |-> text]
Raised == [ok |-> FALSE, text |-> ""]

ResumeText == "Jane Doe, Software Engineer"
ScannedText == "John Roe\nAccountant\n"
UnsupportedText == "Unsupported file format."

\* pdfplumber: the concatenated text layer of the pages
pdfplumber_text(content) ==
    CASE content = "textpdf" -> Returned(ResumeText)
      [] content = "scanpdf" -> Returned("")
      [] OTHER -> Raised

\* fitz + reader.readtext over every page
extract_text_from_pdf_with_ocr(content) ==
    CASE content = "scanpdf" -> Returned(ScannedText)
      [] content = "textpdf" -> Returned(ResumeText \o "\n")
      [] OTHER -> Raised

\* python-docx: the paragraphs joined by newlines
extract_text_from_docx(content) ==
    CASE content = "textdocx" -> Returned(ResumeText)
      [] OTHER -> Raised

\* PIL + reader.readtext over the decoded image
image_readtext(content) ==
    CASE content = "photo" -> Returned(ScannedText)
      [] OTHER -> Raised

\* text.strip() is empty
IsBlank(text) == text \in {"", " ", "\n"}

\* os.path.splitext(filename)[1].lower()
splitext_lower(filename) ==
    CASE filename = "cv.pdf" -> ".pdf"
      [] filename = "CV.PDF" -> ".pdf"
      [] filename = "cv.docx" -> ".docx"
      [] filename = "cv.jpeg" -> ".jpeg"
      [] filename = "cv.txt" -> ".txt"
      [] OTHER -> ""

\* What one chat-completion call does: the service raises, or the message it
\* returns is a JSON object, the JSON literal null, or not JSON at all.
LlmOutcomes == {"json_object", "json_null", "not_json", "service_error"}

\* {"error": str(e)}
ErrorResult(message) == [type |-> "error", val |-> message]

IsErrorResult(value) == value.type = "error"

\* json.loads(content) of a message the service returned for raw_text
json_loads(outcome, raw_text) ==
    IF outcome = "json_null" THEN PyNone ELSE PyDict("resume of: " \o raw_text.val)

\* str(e) of what the try block raised
ExceptionMessage(outcome) ==
    IF outcome = "not_json" THEN "Expecting value: line 1 column 1 (char 0)"
    ELSE "Connection error."

-----------------------------------------------------------------------------
(* The stages.  A stage call threads the store through its cache calls and *)
(* returns the store it leaves, its value, whether it raised, and the      *)
(* ordered steps it took.  rc.get / rc.set say how the remote reads and    *)
(* writes of the call go.                                                  *)

Outcome(st, val, raised, trace) ==
    [st |-> st, val |-> val, raised |-> raised, trace |-> trace]

RemoteCalls == [get : RemoteOutcomes, set : RemoteOutcomes]

extract_text_from_pdf(st, content, rc) ==
    LET layer == pdfplumber_text(content)
        ocr_cache_key == CacheKey("pdf_ocr", _get_file_hash(content))
        cached_ocr == _get_from_cache(st, ocr_cache_key, rc.get)
        ocr == extract_text_from_pdf_with_ocr(content)
    IN  IF ~layer.ok THEN Outcome(st, PyNone, TRUE, <<"pdf_text">>)
        ELSE IF ~IsBlank(layer.text)
        THEN Outcome(st, PyStr(layer.text), FALSE, <<"pdf_text">>)
        ELSE IF cached_ocr # PyNone
        THEN Outcome(st, cached_ocr, FALSE, <<"pdf_text", "pdf_ocr_get">>)
        ELSE IF ~ocr.ok
        THEN Outcome(st, PyNone, TRUE, <<"pdf_text", "pdf_ocr_get", "ocr">>)
        ELSE Outcome(_set_cache(st, ocr_cache_key, PyStr(ocr.text), rc.set),
                     PyStr(ocr.text), FALSE,
                     <<"pdf_text", "pdf_ocr_get", "ocr", "pdf_ocr_set">>)

extract_text_from_image(st, content, rc) ==
    LET cache_key == CacheKey("image_ocr", _get_file_hash(content))
        cached_text == _get_from_cache(st, cache_key, rc.get)
        ocr == image_readtext(content)
    IN  IF cached_text # PyNone
        THEN Outcome(st, cached_text, FALSE, <<"image_ocr_get">>)
        ELSE IF ~ocr.ok
        THEN Outcome(st, PyNone, TRUE, <<"image_ocr_get", "ocr">>)
        ELSE Outcome(_set_cache(st, cache_key, PyStr(ocr.text), rc.set),
                     PyStr(ocr.text), FALSE,
                     <<"image_ocr_get", "ocr", "image_ocr_set">>)

extract_docx(st, content) ==
    LET doc == extract_text_from_docx(content)
    IN  IF doc.ok THEN Outcome(st, PyStr(doc.text), FALSE, <<"docx_text">>)
        ELSE Outcome(st, PyNone, TRUE, <<"docx_text">>)

\* the extension dispatch of extract_text_from_resume
ExtractByExtension(st, ext, content, rc) ==
    CASE ext = ".pdf" -> extract_text_from_pdf(st, content, rc)
      [] ext = ".docx" -> extract_docx(st, content)
      [] ext \in {".png", ".jpg", ".jpeg"} -> extract_text_from_image(st, content, rc)
      [] OTHER -> Outcome(st, PyStr(UnsupportedText), FALSE, <<"unsupported">>)

\* extract_text_from_resume returning the text of a PDF straight from
\* extract_text_from_pdf, without the text_extract write
extract_text_from_resume_PdfNotCached(st, filename, content, rc) ==
    LET cache_key == CacheKey("text_extract", _get_file_hash(content))
        cached_text == _get_from_cache(st, cache_key, rc.get)
        ext == splitext_lower(filename)
        x == ExtractByExtension(st, ext, content, rc)
        head == <<"extract", "text_extract_get">>
    IN  IF cached_text # PyNone
        THEN Outcome(st, cached_text, FALSE, head)
        ELSE IF x.raised
        THEN Outcome(x.st, PyNone, TRUE, head \o x.trace)
        ELSE IF ext \notin {".docx", ".png", ".jpg", ".jpeg"}
        THEN Outcome(x.st, x.val, FALSE, head \o x.trace)
        ELSE Outcome(_set_cache(x.st, cache_key, x.val, rc.set), x.val, FALSE,
                     head \o x.trace \o <<"text_extract_set">>)

extract_text_from_resume(st, filename, content, rc) ==
    LET cache_key == CacheKey("text_extract", _get_file_hash(content))
        cached_text == _get_from_cache(st, cache_key, rc.get)
        ext == splitext_lower(filename)
        x == ExtractByExtension(st, ext, content, rc)
        head == <<"extract", "text_extract_get">>
    IN  IF cached_text # PyNone
        THEN Outcome(st, cached_text, FALSE, head)
        ELSE IF x.raised
        THEN Outcome(x.st, PyNone, TRUE, head \o x.trace)
        ELSE IF ext \notin {".pdf", ".docx", ".png", ".jpg", ".jpeg"}
        THEN Outcome(x.st, x.val, FALSE, head \o x.trace)
        ELSE Outcome(_set_cache(x.st, cache_key, x.val, rc.set), x.val, FALSE,
                     head \o x.trace \o <<"text_extract_set">>)

\* transform_text_to_resume_data with the error result cached like a success
transform_CachingErrors(st, raw_text, rc, llm) ==
    LET cache_key == CacheKey("openai_transform", _get_text_hash(raw_text))
        cached_result == _get_from_cache(st, cache_key, rc.get)
        head == <<"transform", "openai_transform_get">>
        result == IF llm \in {"service_error", "not_json"}
                  THEN ErrorResult(ExceptionMessage(llm))
                  ELSE json_loads(llm, raw_text)
    IN  IF cached_result # PyNone
        THEN Outcome(st, cached_result, FALSE, head)
        ELSE Outcome(_set_cache(st, cache_key, result, rc.set), result, FALSE,
                     head \o <<"llm", llm, "openai_transform_set">>)

transform_text_to_resume_data(st, raw_text, rc, llm) ==
    LET cache_key == CacheKey("openai_transform", _get_text_hash(raw_text))
        cached_result == _get_from_cache(st, cache_key, rc.get)
        head == <<"transform", "openai_transform_get">>
        result == json_loads(llm, raw_text)
    IN  IF cached_result # PyNone
        THEN Outcome(st, cached_result, FALSE, head)
        ELSE IF llm \in {"service_error", "not_json"}
        THEN Outcome(st, ErrorResult(ExceptionMessage(llm)), FALSE,
                     head \o <<"llm", llm>>)
        ELSE Outcome(_set_cache(st, cache_key, result, rc.set), result, FALSE,
                     head \o <<"llm", llm, "openai_transform_set">>)

\* parse_resume calling the transform a second time when the first call
\* returned an error object
parse_resume_Retrying(st, filename, content, rc, llm) ==
    LET cache_key == CacheKey("full_parse", _get_file_hash(content))
        cached_result == _get_from_cache(st, cache_key, rc.get)
        ex == extract_text_from_resume(st, filename, content, rc)
        first == transform_text_to_resume_data(ex.st, ex.val, rc, llm)
        again == transform_text_to_resume_data(first.st, ex.val, rc, llm)
        tr == IF IsErrorResult(first.val)
              THEN Outcome(again.st, again.val, FALSE, first.trace \o again.trace)
              ELSE first
        head == <<"full_parse_get">>
    IN  IF cached_result # PyNone
        THEN Outcome(st, cached_result, FALSE, head)
        ELSE IF ex.raised
        THEN Outcome(ex.st, PyNone, TRUE, head \o ex.trace)
        ELSE Outcome(_set_cache(tr.st, cache_key, tr.val, rc.set), tr.val, FALSE,
                     head \o ex.trace \o tr.trace \o <<"full_parse_set">>)

parse_resume(st, filename, content, rc, llm) ==
    LET cache_key == CacheKey("full_parse", _get_file_hash(content))
        cached_result == _get_from_cache(st, cache_key, rc.get)
        ex == extract_text_from_resume(st, filename, content, rc)
        tr == transform_text_to_resume_data(ex.st, ex.val, rc, llm)
        head == <<"full_parse_get">>
    IN  IF cached_result # PyNone
        THEN Outcome(st, cached_result, FALSE, head)
        ELSE IF ex.raised
        THEN Outcome(ex.st, PyNone, TRUE, head \o ex.trace)
        ELSE Outcome(_set_cache(tr.st, cache_key, tr.val, rc.set), tr.val, FALSE,
                     head \o ex.trace \o tr.trace \o <<"full_parse_set">>)

-----------------------------------------------------------------------------
(* app.py: the gate of POST /parse-resume and its collaborators            *)

origins ==
    {"https://jobstackuidev-gwakgfdgbgh5emdw.canadacentral-01.azurewebsites.net",
     "https://jobtackui-fgcdftezgkhbbpbg.canadacentral-01.azurewebsites.net",
     "http://localhost:5173"}

\* The Origin header values the requests carry; "" is a request without one.
OriginHeaders == {"", "https://evil.example", "http://localhost:5173"}

\* The Authorization header values, each given as what split(" ") makes of
\* it; <<>> is a request without the header.
AuthHeaders ==
    {<<>>, <<"Bearer">>, <<"Bearer", "">>, <<"Bearer", "bad.token.value">>,
     <<"Bearer", "anon.token">>, <<"Bearer", "odd.token">>,
     <<"Bearer", "ghost.token">>, <<"Bearer", "good.token">>}

\* jwt.decode: the tokens that verify, and the userId claim of each ("" when
\* the payload carries none)
ValidTokens == {"anon.token", "odd.token", "ghost.token", "good.token"}

DecodedUserId(token) ==
    CASE token = "good.token" -> "64b7f0c2a1d3e4f5a6b7c8d9"
      [] token = "ghost.token" -> "000000000000000000000000"
      [] token = "odd.token" -> "not-an-object-id"
      [] OTHER -> ""

\* the _id values of the usersv2 collection
Users == {"64b7f0c2a1d3e4f5a6b7c8d9"}

DbOutcomes == {"ok", "error"}

\* the strings bson.ObjectId accepts (24 hexadecimal digits)
ObjectIdStrings == {"64b7f0c2a1d3e4f5a6b7c8d9", "000000000000000000000000"}

\* what upload_resume gets when the lookup raises instead of returning
LookupRaises == "<exception>"

\* find_user_by_id with the outer try / except left out
find_user_by_id_NoOuterTry(user_id, db) ==
    IF db = "error" THEN LookupRaises
    ELSE IF user_id \notin ObjectIdStrings THEN ""
    ELSE IF user_id \in Users THEN user_id
    ELSE ""

\* find_user_by_id(user_id): the user's _id, or "" for None.  The store is
\* reached first (any failure there is caught: None), then the identifier is
\* converted (InvalidId: None), then the record is looked up.
find_user_by_id(user_id, db) ==
    IF db = "error" THEN ""
    ELSE IF user_id \notin ObjectIdStrings THEN ""
    ELSE IF user_id \in Users THEN user_id
    ELSE ""

NoRequest ==
    [pc |-> "idle", origin |-> "", auth |-> <<>>, user_id |-> "", user |-> "",
     filename |-> "", content |-> "", status |-> 0, detail |-> "",
     resumeData |-> PyNone, parsed |-> FALSE]

Reject(req, status, detail) ==
    [req EXCEPT !.pc = "done", !.status = status, !.detail = detail]

\* GateBeforeLookup with the Authorization header looked at before the origin
GateBeforeLookup_AuthFirst(req) ==
    IF req.auth = <<>>
    THEN Reject(req, 400, "Authorization header is missing")
    ELSE IF req.origin = "" \/ req.origin \notin origins
    THEN Reject(req, 403, "Origin not allowed")
    ELSE IF Len(req.auth) < 2
    THEN Reject(req, 400, "Bearer token is missing")
    ELSE IF req.auth[2] = ""
    THEN Reject(req, 400, "Bearer token is missing")
    ELSE IF req.auth[2] \notin ValidTokens
    THEN Reject(req, 401, "Invalid or expired token")
    ELSE IF DecodedUserId(req.auth[2]) = ""
    THEN Reject(req, 400, "Invalid token payload")
    ELSE [req EXCEPT !.pc = "find_user", !.user_id = DecodedUserId(req.auth[2])]

\* upload_resume from its start to the await of find_user_by_id
GateBeforeLookup(req) ==
    IF req.origin = "" \/ req.origin \notin origins
    THEN Reject(req, 403, "Origin not allowed")
    ELSE IF req.auth = <<>>
    THEN Reject(req, 400, "Authorization header is missing")
    ELSE IF Len(req.auth) < 2
    THEN Reject(req, 400, "Bearer token is missing")
    ELSE IF req.auth[2] = ""
    THEN Reject(req, 400, "Bearer token is missing")
    ELSE IF req.auth[2] \notin ValidTokens
    THEN Reject(req, 401, "Invalid or expired token")
    ELSE IF DecodedUserId(req.auth[2]) = ""
    THEN Reject(req, 400, "Invalid token payload")
    ELSE [req EXCEPT !.pc = "find_user", !.user_id = DecodedUserId(req.auth[2])]

\* upload_resume from the answer of find_user_by_id to the await of file.read()
GateAfterLookup(req, user) ==
    IF user = LookupRaises
    THEN Reject(req, 500, "Internal Server Error")
    ELSE IF user = ""
    THEN Reject(req, 401, "User does not exist")
    ELSE [req EXCEPT !.pc = "read_file", !.user = user]

\* upload_resume from the file's bytes to the response; an exception that
\* parse_resume raises is not caught and the server answers 500
Respond(req, out) ==
    IF out.raised
    THEN [req EXCEPT !.pc = "done", !.status = 500, !.parsed = TRUE,
                     !.detail = "Internal Server Error"]
    ELSE [req EXCEPT !.pc = "done", !.status = 200, !.parsed = TRUE,
                     !.resumeData = out.val]

-----------------------------------------------------------------------------
(* State machine                                                           *)

NoRedis == [k \in {} |-> pickle_dumps(PyNone)]

Requests == {"r1", "r2"}

\* What `last` records of a call: the function, its arguments, what it
\* returned or that it raised, the ordered steps it took and the (key, value)
\* pairs it handed to _set_cache.
Call(op, filename, arg, value, out) ==
    [op |-> op, filename |-> filename, arg |-> arg, value |-> value,
     result |-> out.val, raised |-> out.raised, trace |-> out.trace,
     sets |-> out.st.sets]

Idle ==
    [op |-> "idle", filename |-> "", arg |-> "", value |-> PyNone,
     result |-> PyNone, raised |-> FALSE, trace |-> <<>>, sets |-> {}]

\* a process in which no easyocr.Reader has been built
NoReader == [constructed |-> 0, used |-> FALSE]

\* _get_ocr_reader() under lru_cache(maxsize=1): the first call builds the
\* Reader, every later call returns the one that was built
_get_ocr_reader(r) ==
    IF r.constructed = 0 THEN [r EXCEPT !.constructed = 1] ELSE r

\* the recognition pass of a call, if it has one, runs on the module's reader
ReaderAfter(out) ==
    [reader EXCEPT !.used = @ \/ (\E i \in 1..Len(out.trace) : out.trace[i] = "ocr")]

\* Module import: the Redis probe either leaves a client or None; the dict is
\* empty; `reader = _get_ocr_reader()` runs.  The Redis database is taken to
\* be empty at the first start.
Init ==
    /\ redis_client \in BOOLEAN
    /\ _cache = <<>>
    /\ redis = NoRedis
    /\ last = Idle
    /\ requests = [r \in Requests |-> NoRequest]
    /\ reader = _get_ocr_reader(NoReader)

\* Module import where the Redis probe fails: the dict is the only tier.
InitNoRedis == Init /\ ~redis_client

\* Without a client no remote call is made, so its outcome is not a choice.
RemoteChoices ==
    IF redis_client THEN RemoteCalls ELSE {[get |-> "ok", set |-> "ok"]}

Commit(out) ==
    /\ _cache' = out.st.mem
    /\ redis' = out.st.remote
    /\ reader' = ReaderAfter(out)
    /\ UNCHANGED redis_client

Direct(call) ==
    /\ last' = call
    /\ UNCHANGED requests

\* parse_resume(filename, content), the completion service answering in one
\* of the ways of answers
ParseAnswered(filename, content, answers) ==
    /\ last = Idle
    /\ \E rc \in RemoteChoices, llm \in answers :
        LET out == parse_resume(Store(_cache, redis, {}), filename, content, rc, llm)
        IN  /\ Commit(out)
            /\ Direct(Call("parse", filename, content, PyNone, out))

\* parse_resume(filename, content)
Parse(filename, content) == ParseAnswered(filename, content, LlmOutcomes)

\* extract_text_from_resume(filename, content) called on its own
Extract(filename, content) ==
    /\ last = Idle
    /\ \E rc \in RemoteChoices :
        LET out == extract_text_from_resume(Store(_cache, redis, {}), filename,
                                            content, rc)
        IN  /\ Commit(out)
            /\ Direct(Call("extract", filename, content, PyNone, out))

\* transform_text_to_resume_data(raw_text) called on its own
Transform(text) ==
    /\ last = Idle
    /\ \E rc \in RemoteChoices, llm \in LlmOutcomes :
        LET out == transform_text_to_resume_data(Store(_cache, redis, {}),
                                                 PyStr(text), rc, llm)
        IN  /\ Commit(out)
            /\ Direct(Call("transform", "", text, PyNone, out))

\* _set_cache(key, value) called on its own
CacheSet(key, value) ==
    /\ last = Idle
    /\ \E rc \in RemoteChoices :
        LET st == _set_cache(Store(_cache, redis, {}), key, value, rc.set)
        IN  /\ Commit(Outcome(st, PyNone, FALSE, <<>>))
            /\ Direct(Call("set", "", key, value,
                            Outcome(st, PyNone, FALSE, <<>>)))

\* _get_from_cache(key) called on its own
CacheGet(key) ==
    /\ last = Idle
    /\ \E rc \in RemoteChoices :
        LET st == Store(_cache, redis, {})
        IN  /\ Direct(Call("get", "", key, PyNone,
                    Outcome(st, _get_from_cache(st, key, rc.get), FALSE, <<>>)))
            /\ UNCHANGED <<redis_client, _cache, redis, reader>>

\* The caller has its answer; the next call can start.
Return ==
    /\ last # Idle
    /\ last' = Idle
    /\ UNCHANGED <<redis_client, _cache, redis, requests, reader>>

\* A Redis entry reaches its time-to-live (setex) and is gone.
RedisExpire ==
    /\ last = Idle
    /\ \E key \in DOMAIN redis :
           redis' = [k \in DOMAIN redis \ {key} |-> redis[k]]
    /\ UNCHANGED <<redis_client, _cache, last, requests, reader>>

\* The process is started again: the module is imported afresh (new dict,
\* new probe) while the Redis database keeps what it holds.
Restart ==
    /\ last = Idle
    /\ redis_client' \in BOOLEAN
    /\ _cache' = <<>>
    /\ reader' = _get_ocr_reader(NoReader)
    /\ UNCHANGED <<redis, last, requests>>

\* A request arrives and upload_resume runs up to its first suspension.
Receive(r) ==
    /\ last = Idle
    /\ requests[r].pc = "idle"
    /\ \E origin \in OriginHeaders, auth \in AuthHeaders :
           requests' = [requests EXCEPT ![r] =
               GateBeforeLookup([NoRequest EXCEPT !.origin = origin,
                                                  !.auth = auth])]
    /\ UNCHANGED <<redis_client, _cache, redis, last, reader>>

\* find_user_by_id answers and upload_resume runs up to await file.read().
UserLookup(r) ==
    /\ last = Idle
    /\ requests[r].pc = "find_user"
    /\ \E db \in DbOutcomes :
           requests' = [requests EXCEPT ![r] =
               GateAfterLookup(requests[r], find_user_by_id(requests[r].user_id, db))]
    /\ UNCHANGED <<redis_client, _cache, redis, last, reader>>

\* The upload (file.filename, await file.read()) is read; parse_resume runs
\* and the response is built.
Process(r, filename, content) ==
    /\ last = Idle
    /\ requests[r].pc = "read_file"
    /\ \E rc \in RemoteChoices, llm \in LlmOutcomes :
        LET out == parse_resume(Store(_cache, redis, {}), filename, content, rc, llm)
            req == [requests[r] EXCEPT !.filename = filename, !.content = content]
        IN  /\ Commit(out)
            /\ requests' = [requests EXCEPT ![r] = Respond(req, out)]
            /\ UNCHANGED last

\* The response is sent and the request is over.
Close(r) ==
    /\ requests[r].pc = "done"
    /\ requests' = [requests EXCEPT ![r] = NoRequest]
    /\ UNCHANGED <<redis_client, _cache, redis, last, reader>>

-----------------------------------------------------------------------------
(* Specifications                                                          *)

\* The service: requests pass the gate and are parsed.
UploadNames == {"cv.pdf", "cv.txt"}
Uploads == {"textpdf"}

Next ==
    \/ \E r \in Requests : Receive(r)
    \/ \E r \in Requests : UserLookup(r)
    \/ \E r \in Requests, f \in UploadNames, c \in Uploads : Process(r, f, c)
    \/ \E r \in Requests : Close(r)
    \/ RedisExpire

Spec == Init /\ [][Next]_vars

\* Scanned documents and photographs parsed with the dict as the only tier.
OcrNames == {"cv.pdf", "cv.jpeg", "cv.docx"}
OcrContents == {"scanpdf", "photo", "textpdf", "textdocx"}

OcrAnswers == {"json_object", "service_error"}

NextOcr ==
    \/ \E f \in OcrNames, c \in OcrContents : ParseAnswered(f, c, OcrAnswers)
    \/ Return

SpecOcr == InitNoRedis /\ [][NextOcr]_vars

\* One client uploading files of several kinds, well-formed or not.
Uploader == "r1"
UploaderNames == {"cv.pdf", "cv.docx"}
UploaderContents == {"textpdf", "textdocx"}

NextUpload ==
    \/ Receive(Uploader)
    \/ UserLookup(Uploader)
    \/ \E f \in UploaderNames, c \in UploaderContents : Process(Uploader, f, c)
    \/ Close(Uploader)
    \/ RedisExpire

SpecUpload == Init /\ [][NextUpload]_vars

\* The stages called directly, in a process whose Redis probe failed.
StageNames == {"CV.PDF", "cv.docx", "cv.txt"}
StageContents == {"textpdf", "textdocx"}

NextStages ==
    \/ \E f \in StageNames, c \in StageContents : Parse(f, c)
    \/ \E f \in StageNames, c \in StageContents : Extract(f, c)
    \/ Transform(ResumeText)
    \/ Return

SpecStages == InitNoRedis /\ [][NextStages]_vars

\* The transform stage alone, over restarts of the process and Redis expiry.
NextTransform ==
    \/ \E t \in {ResumeText, UnsupportedText} : Transform(t)
    \/ RedisExpire
    \/ Restart
    \/ Return

SpecTransform == Init /\ [][NextTransform]_vars

\* The two cache functions alone, with and without Redis.
ProbeKeys == {CacheKey("full_parse", _get_file_hash("textpdf")),
              CacheKey("text_extract", _get_file_hash("textpdf"))}
ProbeValues == {PyNone, PyStr(ResumeText), PyDict("resume of: " \o ResumeText)}

NextCache ==
    \/ \E key \in ProbeKeys, value \in ProbeValues : CacheSet(key, value)
    \/ \E key \in ProbeKeys : CacheGet(key)
    \/ RedisExpire
    \/ Restart
    \/ Return

SpecCache == Init /\ [][NextCache]_vars

\* The in-process tier filled past its capacity.  The dict does not tell one
\* absent key from another, so new keys come in pool order, each one a key
\* that was never used before: the next after the latest the dict holds.
KeyPool == <<"k01", "k02", "k03", "k04", "k05", "k06", "k07", "k08", "k09", "k10">>

PoolIndex(key) == CHOOSE i \in 1..Len(KeyPool) : KeyPool[i] = key

FreshKeys ==
    {KeyPool[i] : i \in {n \in 1..Len(KeyPool) :
        /\ \A key \in DictKeys(_cache) : PoolIndex(key) < n
        /\ \A m \in 1..(n - 1) : \E key \in DictKeys(_cache) : PoolIndex(key) >= m}}

FillValues == {PyStr("v1"), PyStr("v2")}

NextCapacity ==
    \/ \E key \in DictKeys(_cache) \cup FreshKeys, value \in FillValues :
           CacheSet(key, value)
    \/ \E key \in DictKeys(_cache) \cup FreshKeys : CacheGet(key)
    \/ Return

SpecCapacity == InitNoRedis /\ [][NextCapacity]_vars

-----------------------------------------------------------------------------
(* Properties                                                              *)

Tiers == Store(_cache, redis, {})

FullParseKey(content) == CacheKey("full_parse", _get_file_hash(content))
TextExtractKey(content) == CacheKey("text_extract", _get_file_hash(content))
TransformKey(text) == CacheKey("openai_transform", md5_hexdigest(text))

InTrace(call, step) == \E i \in 1..Len(call.trace) : call.trace[i] = step

\* a step that is a fresh call of op
Calls(op) == last = Idle /\ last'.op = op

\* the chat-completion call of this call raised, or answered with no JSON
ServiceFailed(call) == InTrace(call, "service_error") \/ InTrace(call, "not_json")

\* C1: a parse of a content whose full_parse entry is still held (not evicted
\* from the dict, not expired from Redis when Redis is in use) returns the held
\* value and runs neither the extraction nor the transform stage; and a parse
\* that stores under full_parse:<file fingerprint> stores what it returns, the
\* transform stage's result.
C1_PipelineIdempotence ==
    [][Calls("parse") =>
        LET key == FullParseKey(last'.arg)
            held == /\ DictHas(_cache, key)
                    /\ redis_client => key \in DOMAIN redis
        IN  /\ held => /\ last'.result = DictGet(_cache, key)
                       /\ ~InTrace(last', "extract")
                       /\ ~InTrace(last', "transform")
            /\ InTrace(last', "full_parse_set") =>
                   DictGet(_cache', key) = last'.result]_vars

\* C2: after a parse returned an error object because the transform stage
\* failed, neither tier holds that error under any key, and the next parse
\* of the same content misses full_parse (so the transform stage runs again).
C2_ErrorsNotSticky ==
    (last.op = "parse" /\ ServiceFailed(last)) =>
        /\ IsErrorResult(last.result)
        /\ \A i \in 1..Len(_cache) : _cache[i].v # last.result
        /\ \A key \in DOMAIN redis : pickle_loads(redis[key]) # last.result
        /\ \A rc \in RemoteChoices :
               _get_from_cache(Tiers, FullParseKey(last.arg), rc.get) = PyNone

\* the stages with no cache tier at all
NoCache == Store(<<>>, NoRedis, {})
NoRemoteCalls == [get |-> "error", set |-> "error"]

\* C3: what parse and extract answer with the cache tiers present is what
\* they answer with no cache at all for the same filename and content (for
\* parse: with one of the answers the completion service can give).
C3_CacheTransparency ==
    /\ last.op = "extract" =>
        LET plain == extract_text_from_resume(NoCache, last.filename, last.arg,
                                              NoRemoteCalls)
        IN  last.result = plain.val /\ last.raised = plain.raised
    /\ last.op = "parse" =>
        \E llm \in LlmOutcomes :
            LET plain == parse_resume(NoCache, last.filename, last.arg,
                                      NoRemoteCalls, llm)
            IN  last.result = plain.val /\ last.raised = plain.raised
    /\ last.op = "transform" =>
        \E llm \in LlmOutcomes :
            transform_text_to_resume_data(NoCache, PyStr(last.arg),
                                          NoRemoteCalls, llm).val = last.result

\* C4: in the state a set(K, V) leaves, get(K) returns V however the remote
\* read goes, and the in-process tier holds V under K.
C4_CacheRoundTrip ==
    last.op = "set" =>
        /\ DictGet(_cache, last.arg) = last.value
        /\ \A rc \in RemoteChoices :
               _get_from_cache(Tiers, last.arg, rc.get) = last.value

\* C5: the in-process tier never holds more than _max_cache_size entries, and
\* a set made while it holds _max_cache_size entries leaves it with fewer.
C5_CapacityBound ==
    /\ [](Len(_cache) <= _max_cache_size)
    /\ [][(Calls("set") /\ Len(_cache) = _max_cache_size) =>
              Len(_cache') < _max_cache_size]_vars

\* a set was made at capacity: the first key of the pool has been evicted
C5_Witness ==
    /\ last.op = "set"
    /\ Len(_cache) = _max_cache_size - (_max_cache_size \div 4) + 1
    /\ KeyPool[1] \notin DictKeys(_cache)

Supported == {".pdf", ".docx", ".png", ".jpg", ".jpeg"}

\* C7: for a filename whose extension is not supported, extract returns the
\* unsupported-format text and parse returns instead of raising.
C7_UnsupportedExtension ==
    /\ (last.op = "extract" /\ splitext_lower(last.filename) \notin Supported) =>
           (last.result = PyStr(UnsupportedText) /\ ~last.raised)
    /\ (last.op = "parse" /\ splitext_lower(last.filename) \notin Supported) =>
           ~last.raised

\* the text the extraction of (filename, content) yields
ExtractedText(filename, content) ==
    extract_text_from_resume(NoCache, filename, content, NoRemoteCalls)

\* C8: when a payload is parsed for the first time while the dict holds the
\* full_parse entry of a different payload with the same extracted text and
\* the openai_transform entry of that text, the completion service is not
\* called; and the only key a transform writes is the openai_transform key of
\* the fingerprint of its text.
C8_TransformCacheSharing ==
    [][/\ Calls("parse") =>
            LET x == ExtractedText(last'.filename, last'.arg)
            IN  ( /\ ~x.raised
                  /\ ~DictHas(_cache, FullParseKey(last'.arg))
                  /\ ~DictHas(_cache, TextExtractKey(last'.arg))
                  /\ DictHas(_cache, TransformKey(x.val.val))
                  /\ \E other \in Contents \ {last'.arg}, f \in Filenames :
                        LET y == ExtractedText(f, other)
                        IN  /\ DictHas(_cache, FullParseKey(other))
                            /\ ~y.raised
                            /\ y.val = x.val )
                => ~InTrace(last', "llm")
       /\ Calls("transform") =>
            \A pair \in last'.sets : pair[1] = TransformKey(last'.arg)]_vars

FirstFailedCheck(req) ==
    IF req.origin \notin origins THEN 1
    ELSE IF req.auth = <<>> THEN 2
    ELSE IF Len(req.auth) < 2 THEN 3
    ELSE IF req.auth[2] = "" THEN 3
    ELSE IF req.auth[2] \notin ValidTokens THEN 4
    ELSE IF DecodedUserId(req.auth[2]) = "" THEN 5
    ELSE IF req.user = "" THEN 6
    ELSE 0

StatusOfCheck == <<403, 400, 400, 401, 400, 401>>

GateOrder ==
    \A r \in Requests :
        LET req == requests[r]
            failed == FirstFailedCheck(req)
        IN  /\ req.pc = "done" =>
                /\ failed # 0 => req.status = StatusOfCheck[failed]
                /\ req.parsed <=> failed = 0
                /\ req.status \in {200, 500} <=> failed = 0
            /\ req.pc = "find_user" => (failed = 6 /\ ~req.parsed)
            /\ req.pc = "read_file" => (failed = 0 /\ ~req.parsed)

\* C10: a finished request carries the status of the first check it fails, in
\* the order origin, header, token, verification, userId claim, user record;
\* parse_resume has run for it only when it fails none; and a step that
\* rejects a request leaves both cache tiers as they were.
C10_AuthGate ==
    /\ []GateOrder
    /\ [][(\E r \in Requests :
              /\ requests'[r] # requests[r]
              /\ requests'[r].pc = "done"
              /\ requests'[r].status \in {400, 401, 403})
          => UNCHANGED <<_cache, redis>>]_vars

\* a request turned away at the last check while a parsed result is cached
C10_Witness ==
    \E r \in Requests :
        /\ requests[r].pc = "done"
        /\ requests[r].status = 401
        /\ requests[r].detail = "User does not exist"
        /\ _cache # <<>>

\* C11: a request that passed the gate and went through parse_resume is
\* answered 200 with what parse_resume returned, whatever failed in the
\* extraction or the transform stage: parse_resume raised nothing.
C11_FailSoft ==
    \A r \in Requests :
        requests[r].parsed =>
            /\ requests[r].status = 200
            /\ requests[r].detail = ""

\* the ways a remote read goes wrong: the client raises (timeout, connection
\* failure) or pickle.loads raises on the bytes it was given
FailedReads == (RemoteOutcomes \ {"ok"}) \cup {"undeserializable"}

\* C12: with a Redis client, in every state and for every key, a get whose
\* remote read fails returns what the dict holds under the key (None when it
\* holds nothing), and so does a get whose remote read finds no entry.
C12_RemoteErrorsInvisible ==
    redis_client =>
        \A key \in ProbeKeys \cup DictKeys(_cache) \cup DOMAIN redis :
            /\ \A ro \in FailedReads :
                   _get_from_cache(Tiers, key, ro) = DictGet(_cache, key)
            /\ key \notin DOMAIN redis =>
                   _get_from_cache(Tiers, key, "ok") = DictGet(_cache, key)

\* a get answered from the dict although Redis holds another value for the
\* key: its remote read failed
C12_Witness ==
    /\ redis_client
    /\ last.op = "get"
    /\ last.arg \in DOMAIN redis
    /\ last.result = DictGet(_cache, last.arg)
    /\ last.result # pickle_loads(redis[last.arg])
    /\ last.result # PyNone

\* the entry of the dict d under each of its keys is the same in the dict e,
\* and the keys stand in e in the order they have in d
KeptInOrder(d, e, key) ==
    /\ Len(e) >= Len(d)
    /\ \A i \in 1..Len(d) :
           /\ e[i].k = d[i].k
           /\ d[i].k # key => e[i].v = d[i].v

\* C13: a set made while the dict holds at least _max_cache_size entries
\* removes the first _max_cache_size \div 4 entries in insertion order and no
\* other, then writes its entry; a set made below that size removes nothing.
C13_EvictionPolicy ==
    [][Calls("set") =>
        LET n == _max_cache_size \div 4
            key == last'.arg
            rest == SubSeq(_cache, n + 1, Len(_cache))
        IN  /\ DictGet(_cache', key) = last'.value
            /\ DictHas(_cache', key)
            /\ Len(_cache) >= _max_cache_size =>
                   /\ \A i \in 1..n :
                          _cache[i].k # key => ~DictHas(_cache', _cache[i].k)
                   /\ KeptInOrder(rest, _cache', key)
                   /\ Len(_cache') = Len(rest) + (IF DictHas(rest, key) THEN 0 ELSE 1)
            /\ Len(_cache) < _max_cache_size =>
                   /\ KeptInOrder(_cache, _cache', key)
                   /\ Len(_cache') = Len(_cache) + (IF DictHas(_cache, key) THEN 0 ELSE 1)]_vars

\* a set has evicted: the dict starts at the key that was next in line and
\* ends with the key just written
C13_Witness ==
    /\ last.op = "set"
    /\ Len(_cache) = _max_cache_size - (_max_cache_size \div 4) + 1
    /\ _cache[1].k = KeyPool[(_max_cache_size \div 4) + 1]
    /\ _cache[Len(_cache)].k = last.arg
    /\ _cache[Len(_cache)].v = last.value

\* the place of each step in the one pass of parse_resume
StepRank(step) ==
    CASE step = "full_parse_get" -> 1
      [] step = "extract" -> 2
      [] step = "text_extract_get" -> 3
      [] step \in {"pdf_text", "docx_text", "unsupported"} -> 4
      [] step \in {"pdf_ocr_get", "image_ocr_get"} -> 5
      [] step = "ocr" -> 6
      [] step \in {"pdf_ocr_set", "image_ocr_set"} -> 7
      [] step = "text_extract_set" -> 8
      [] step = "transform" -> 9
      [] step = "openai_transform_get" -> 10
      [] step = "llm" -> 11
      [] step \in LlmOutcomes -> 12
      [] step = "openai_transform_set" -> 13
      [] step = "full_parse_set" -> 14

\* C14: the steps of one parse_resume call go forward only: the full_parse
\* lookup first, then the extraction, then the transform, then the full_parse
\* store; no step (the extraction, the recognition pass, the completion call
\* among them) happens twice, whatever failed; a call that neither hit the
\* cache nor raised ends with the full_parse store.
C14_StraightLine ==
    last.op = "parse" =>
        /\ last.trace[1] = "full_parse_get"
        /\ \A i, j \in 1..Len(last.trace) :
               i < j => StepRank(last.trace[i]) < StepRank(last.trace[j])
        /\ (~last.raised /\ Len(last.trace) > 1) =>
               /\ last.trace[Len(last.trace)] = "full_parse_set"
               /\ InTrace(last, "extract")
               /\ InTrace(last, "transform")

\* a parse that went through the recognition pass and a failed completion call
C14_Witness ==
    /\ last.op = "parse"
    /\ InTrace(last, "ocr")
    /\ ServiceFailed(last)
    /\ InTrace(last, "full_parse_set")

\* C15: while the process runs (every step but a restart), a probe that left
\* no client leaves none for good; no call writes to Redis (what Redis holds
\* changes by expiry alone) and a get answers from the dict.
C15_RemoteDisabledForGood ==
    [][(~redis_client /\ ~Restart) =>
          /\ ~redis_client'
          /\ ~RedisExpire => redis' = redis
          /\ Calls("get") => last'.result = DictGet(_cache, last'.arg)]_vars

\* the probe failed while Redis holds entries of an earlier run: a set went
\* to the dict alone and a get of a key Redis holds answered from the dict
C15_Witness ==
    /\ ~redis_client
    /\ last.op = "get"
    /\ last.arg \in DOMAIN redis
    /\ DictHas(_cache, last.arg)
    /\ last.result # pickle_loads(redis[last.arg])

\* C16: at most one easyocr.Reader is built in a process, and none is built
\* before reader.readtext is needed for the first time (a scanned PDF or an
\* image to recognise).
C16_LazyOcrReader ==
    /\ reader.constructed <= 1
    /\ reader.constructed > 0 => reader.used

PdfOcrKey(content) == CacheKey("pdf_ocr", _get_file_hash(content))
ImageOcrKey(content) == CacheKey("image_ocr", _get_file_hash(content))

\* C18: with the dict as the only tier and the stages reached through
\* parse_resume alone, the dict never holds the pdf_ocr or the image_ocr entry
\* of a content without its text_extract entry; and no parse finds the OCR
\* entry after missing text_extract (a parse that looks the OCR entry up goes
\* on to the recognition pass).
C18_InnerNeverWithoutOuter ==
    /\ \A c \in Contents :
           (DictHas(_cache, PdfOcrKey(c)) \/ DictHas(_cache, ImageOcrKey(c)))
               => DictHas(_cache, TextExtractKey(c))
    /\ last.op = "parse" =>
           ((InTrace(last, "pdf_ocr_get") \/ InTrace(last, "image_ocr_get"))
               => InTrace(last, "ocr"))

\* eviction has taken the OCR entry of the scanned PDF and left its text
C18_Witness ==
    /\ DictHas(_cache, TextExtractKey("scanpdf"))
    /\ ~DictHas(_cache, PdfOcrKey("scanpdf"))

\* C19: find_user_by_id answers None, and raises nothing, for an identifier
\* that is no ObjectId, for an identifier without a record and whenever the
\* user store fails; and a request whose lookup found no user ends with 401
\* "User does not exist" without parse_resume having run for it.
C19_LookupNeverRaises ==
    /\ \A token \in ValidTokens, db \in DbOutcomes :
           LET user_id == DecodedUserId(token)
           IN  (db = "error" \/ user_id \notin ObjectIdStrings \/ user_id \notin Users)
                   => find_user_by_id(user_id, db) = ""
    /\ \A r \in Requests :
           (requests[r].pc = "done" /\ requests[r].user_id # "" /\ requests[r].user = "")
               => /\ requests[r].status = 401
                  /\ requests[r].detail = "User does not exist"
                  /\ ~requests[r].parsed
                  /\ requests[r].resumeData = PyNone

\* a request whose token carries a userId that is no ObjectId was turned away
C19_Witness ==
    \E r \in Requests :
        /\ requests[r].pc = "done"
        /\ requests[r].user_id # ""
        /\ requests[r].user_id \notin ObjectIdStrings
        /\ requests[r].status = 401

====
